---- MODULE Spec2Model ----
(***************************************************************************)
(* A model of StockAgent: the JSON-RPC tool gateway (mcp_server.py), the   *)
(* tool client (src/mcp_executor.py) and the three-agent conversation loop *)
(* (src/multi_agent_system.py).                                             *)
(*                                                                         *)
(* Three specifications share the variables; each one holds the other      *)
(* components' variables fixed:                                            *)
(*   SpecGateway  one HTTP request at a time through mcp_endpoint          *)
(*   SpecClient   MCPToolExecutor.call_tool against a gateway / transport  *)
(*   SpecChat     MultiAgentSystem.analyze_stock driving the team          *)
(***************************************************************************)
EXTENDS Integers, Sequences, FiniteSets, TLC

VARIABLES
    \* ---- gateway (mcp_server.py) ----
    gwPc,          \* "idle" | "batch" | "replied": position inside mcp_endpoint
    gwBody,        \* what `await request.json()` produced for the request in flight
    gwIdx,         \* batch loop: index of the next element of body (line 239)
    gwResponses,   \* batch loop: the list `responses` (line 238)
    gwReply,       \* what mcp_endpoint returned to the HTTP layer
    providerLog,   \* provider invocations made while serving the request in flight
    \* ---- tool client (src/mcp_executor.py) ----
    clPc,          \* "idle" | "awaiting" | "returned" | "raised": position in call_tool
    clCall,        \* the (name, arguments) of the call_tool in progress
    clExchange,    \* what the HTTP exchange of that call did
    clOutcome,     \* the text returned, or the fault raised, by the last call_tool
    \* ---- conversation loop (src/multi_agent_system.py) ----
    max_turns,     \* MultiAgentSystem.max_turns
    chatState,     \* "READY" | "RUNNING" | "TERMINATED" | "FAULTED"
    stopReason,    \* "none" | "phrase-matched" | "turn-budget-exhausted"
    turnIndex,     \* number of turns taken
    transcript,    \* the ordered ConversationTurns
    \* ---- a turn and its tool round-trips (src/tools.py, src/agents.py) ----
    turnPc,        \* "idle" | "speaking": whether a participant's turn is in progress
    toolsOutstanding, \* tool calls of this run sent to the gateway and not yet answered
    toolCalls,     \* tool round-trips made in the turn in progress
    \* ---- the executor and the process-wide singleton (src/mcp_executor.py) ----
    mcpExecutor,   \* the global _mcp_executor: 0 for None, else the instance
    exClient,      \* self.client of that instance: 0 for None, else the handle
    openHandles,   \* the handles created and not yet closed
    nextHandle,    \* the number of the next handle created
    nextInstance,  \* the number of the next MCPToolExecutor created
    gotten,        \* the instances get_mcp_executor returned since the last cleanup
    retired,       \* the instances cleanup_mcp_executor dropped
    lastOp,        \* the last operation on the executor, and what it did
    \* ---- coroutines sharing one executor (ensure_connection / disconnect) ----
    taskPc,        \* per task: its position inside ensure_connection or disconnect
    lockHolder,    \* the task holding self._client_lock, 0 when it is free
    lastCreated,   \* the handle created last, 0 before any
    \* ---- the top-level run (src/main.py) ----
    mainPc,        \* position inside main()
    mainSystem,    \* whether `system` is bound to a MultiAgentSystem
    cleanupAttempts, \* how many times main awaited system.cleanup()
    mainReports,   \* what main and analyze_stock printed about faults
    mainEscaped,   \* the fault that left main, "none" when it returned
    mainVerdict,   \* the text main printed as the final result, <<>> before
    exUrl,         \* self.server_url of the instance the global names, "none" without one
    \* ---- _handle_async_call (src/tools.py) ----
    asPc,          \* position inside _handle_async_call
    asContext,     \* "no_loop" | "in_loop": whether the caller runs inside an event loop
    asCall,        \* the tool function that called, and its ticker
    asTask,        \* the task made from the coroutine: "none" | "pending" | "done"
    asOutcome,     \* what the coroutine produced, once it ran
    loopControl,   \* who runs on the loop's thread: "none" | "caller" | "loop"
    nestAsyncio,   \* whether nest_asyncio can be imported
    \* ---- systems constructed in one process (src/multi_agent_system.py) ----
    envUrl,        \* os.environ["MCP_SERVER_URL"], "unset" when missing
    systems,       \* the mcp_server_url each constructed system was given
    running,       \* the system whose analysis is running, 0 when none
    lastSent       \* the last tool call: the system's URL and where it was sent

gwVars == <<gwPc, gwBody, gwIdx, gwResponses, gwReply, providerLog>>
clVars == <<clPc, clCall, clExchange, clOutcome>>
chatVars == <<max_turns, chatState, stopReason, turnIndex, transcript>>
convVars == <<turnPc, toolsOutstanding, toolCalls>>
exVars == <<mcpExecutor, exClient, openHandles, nextHandle, nextInstance, gotten, retired, lastOp, exUrl>>
lockVars == <<taskPc, lockHolder, lastCreated>>
mainVars == <<mainPc, mainSystem, cleanupAttempts, mainReports, mainEscaped, mainVerdict>>
asyncVars == <<asPc, asContext, asCall, asTask, asOutcome, loopControl, nestAsyncio>>
sysVars == <<envUrl, systems, running, lastSent>>
vars == <<gwVars, clVars, chatVars, convVars, exVars, lockVars, mainVars, asyncVars, sysVars>>

\* what the actions of one component leave alone
notGw == <<clVars, chatVars, convVars, exVars, lockVars, mainVars, asyncVars, sysVars>>
notCl == <<gwVars, chatVars, convVars, exVars, lockVars, mainVars, asyncVars, sysVars>>
notChat == <<gwVars, clVars, convVars, exVars, lockVars, mainVars, asyncVars, sysVars>>

(***************************************************************************)
(* Bounds of the model.                                                    *)
(***************************************************************************)
\* longest batch body enumerated
MaxBatch == 2
\* largest --max-turns enumerated
MaxTurnsBound == 4

(***************************************************************************)
(* JSON values.  Every value is a record [k, v]: k its JSON kind, v its    *)
(* payload written as a string.  Absent is "the key is not in the object". *)
(***************************************************************************)
Absent == [k |-> "absent", v |-> ""]
JNull == [k |-> "null", v |-> ""]
JStr(s) == [k |-> "str", v |-> s]
JInt(s) == [k |-> "int", v |-> s]
\* any other JSON value: a float with a fraction, a list, a nested object
JOther(s) == [k |-> "other", v |-> s]

\* Python truthiness, as `not ticker_symbol` evaluates it (lines 129, 148):
\* None, "", 0 and empty containers are falsy.
Truthy(j) ==
    CASE j.k = "absent" -> FALSE
      [] j.k = "null" -> FALSE
      [] j.k = "str" -> j.v # ""
      [] j.k = "int" -> j.v # "0"
      [] OTHER -> j.v # "[]"

\* dict.get(key): a missing key reads as None
DictGet(j) == IF j = Absent THEN JNull ELSE j

(***************************************************************************)
(* Request bodies.                                                         *)
(*   arguments: [k, ticker_symbol]   k in absent | null | bad | dict       *)
(*   params:    [k, name, arguments] k in absent | null | bad | dict       *)
(*   element:   [isDict, jsonrpc, id, method, params]                      *)
(* "bad" is a JSON value of the wrong shape (a string or a list where an   *)
(* object is expected).                                                    *)
(***************************************************************************)
NoArguments == [k |-> "absent", ticker_symbol |-> Absent]
NoParams == [k |-> "absent", name |-> Absent, arguments |-> NoArguments]

TickerValues ==
    {Absent, JNull, JStr(""), JStr("AAPL"), JInt("0"), JInt("5"), JOther("[1]")}

ArgumentValues ==
    {[k |-> kk, ticker_symbol |-> Absent] : kk \in {"absent", "null", "bad"}}
    \cup {[k |-> "dict", ticker_symbol |-> t] : t \in TickerValues}

NameValues ==
    {Absent, JNull, JStr("news_sentiment_tool"), JStr("technical_analysis_tool"),
     JStr("unknown_tool")}

ParamValues ==
    {[k |-> kk, name |-> Absent, arguments |-> NoArguments] : kk \in {"absent", "null", "bad"}}
    \cup {[k |-> "dict", name |-> n, arguments |-> a] : n \in NameValues, a \in ArgumentValues}

MethodValues ==
    {Absent, JStr("initialize"), JStr("tools/list"), JStr("tools/call"),
     JStr("resources/list"), JInt("7")}

IdValues == {Absent, JNull, JInt("1"), JStr("a"), JOther("1.5")}

JsonrpcValues == {Absent, JStr("2.0"), JInt("2")}

\* every JSON object body enumerated
DictBodies ==
    [isDict : {TRUE}, jsonrpc : JsonrpcValues, id : IdValues,
     method : MethodValues, params : ParamValues]

\* a batch element that is not a JSON object (here: a JSON string)
NonDictElem ==
    [isDict |-> FALSE, jsonrpc |-> Absent, id |-> Absent, method |-> Absent,
     params |-> NoParams]

Req(id, method, params) ==
    [isDict |-> TRUE, jsonrpc |-> JStr("2.0"), id |-> id, method |-> method,
     params |-> params]

CallParams(name, ticker) ==
    [k |-> "dict", name |-> JStr(name),
     arguments |-> [k |-> "dict", ticker_symbol |-> ticker]]

\* the elements batches are built from: one of each path through the handlers
BatchElems ==
    {NonDictElem,
     Req(JInt("1"), JStr("initialize"), NoParams),
     Req(JStr("a"), JStr("tools/list"), NoParams),
     Req(Absent, JStr("resources/list"), NoParams),
     Req(JInt("1"), Absent, NoParams),
     Req(JInt("1"), JStr("tools/call"), CallParams("news_sentiment_tool", JStr("AAPL"))),
     Req(JStr("a"), JStr("tools/call"), CallParams("technical_analysis_tool", JStr("AAPL"))),
     Req(JInt("1"), JStr("tools/call"), CallParams("technical_analysis_tool", Absent)),
     Req(JInt("1"), JStr("tools/call"), CallParams("unknown_tool", JStr("AAPL"))),
     Req(JInt("1"), JStr("tools/call"),
         [k |-> "dict", name |-> JStr("news_sentiment_tool"),
          arguments |-> [k |-> "null", ticker_symbol |-> Absent]])}

RECURSIVE SeqsUpTo(_, _)
SeqsUpTo(S, n) ==
    IF n = 0 THEN {<<>>}
    ELSE LET shorter == SeqsUpTo(S, n - 1)
         IN shorter \cup {Append(s, e) : s \in {t \in shorter : Len(t) = n - 1}, e \in S}

Batches == SeqsUpTo(BatchElems, MaxBatch)


(***************************************************************************)
(* The providers (mcp_server.py lines 9-56).  The market-data source is an *)
(* external collaborator: `src` is what it did on this call.               *)
(***************************************************************************)
\* what the market-data source does when asked: it delivers data, delivers
\* nothing, delivers data of another shape, or faults
SourceOutcomes == {"data", "empty", "malformed", "fault"}

\* what leaves a provider whose fault is not caught inside it
ProviderRaised == "<raised>"

\* lines 9-26; an item that is not a mapping makes news[i].get raise inside
\* the try block
fetch_news_sentiment_unguarded(ticker_symbol, src) ==
    CASE src = "fault" -> ProviderRaised
      [] src = "malformed" -> ProviderRaised
      [] src = "empty" -> "No recent news available for this ticker."
      [] OTHER -> "[Article #1. <title> - <summary>]"
fetch_news_sentiment(ticker_symbol, src) ==
    CASE src = "fault" -> "Error fetching news articles: <fault>"
      [] src = "malformed" -> "Error fetching news articles: <malformed>"
      [] src = "empty" -> "No recent news available for this ticker."
      [] OTHER -> "[Article #1. <title> - <summary>]"

\* lines 29-56; an empty frame makes data.iloc[-1] raise inside the try
\* block, a frame without the Close column makes data["Close"] raise there
fetch_technical_analysis(ticker_symbol, src) ==
    CASE src = "data" -> "{SMA50, SMA200, RSI, MACD, MACD_signal, MACD_hist}"
      [] src = "empty" -> "Error fetching technical analysis: <empty>"
      [] src = "malformed" -> "Error fetching technical analysis: <malformed>"
      [] OTHER -> "Error fetching technical analysis: <fault>"

(***************************************************************************)
(* The response envelope (lines 67-77).  None is JNull / NoResult /        *)
(* NoError.                                                                *)
(***************************************************************************)
CodeParseError == -32700
CodeMethodNotFound == -32601
CodeInvalidParams == -32602
CodeInternalError == -32603

NoResult == [k |-> "none", content |-> <<>>]
NoError == [k |-> "none", code |-> 0, message |-> <<>>]

JSONRPCError(code, message) == [k |-> "error", code |-> code, message |-> message]

JSONRPCResponse(id, result, error) ==
    [jsonrpc |-> "2.0", id |-> id, result |-> result, error |-> error]

\* result={"content": [{"type": "text", "text": ...}]}
TextContent(text) ==
    [k |-> "content", content |-> <<[type |-> "text", text |-> text]>>]

\* a handler's outcome: the response, and the provider calls it made
Handled(resp, fetched) == [resp |-> resp, fetched |-> fetched]

\* response.model_dump() without exclude_none: every field is a key
model_dump_all(response) ==
    [keys |-> {"jsonrpc", "id", "result", "error"},
     id |-> response.id, result |-> response.result, error |-> response.error]

\* response.model_dump(exclude_none=True): the keys whose value is not None
model_dump(response) ==
    [keys |-> {"jsonrpc"}
              \cup (IF response.id = JNull THEN {} ELSE {"id"})
              \cup (IF response.result = NoResult THEN {} ELSE {"result"})
              \cup (IF response.error = NoError THEN {} ELSE {"error"}),
     id |-> response.id, result |-> response.result, error |-> response.error]

(***************************************************************************)
(* Building JSONRPCRequest from body (lines 60-64, 198): validation.         *)
(***************************************************************************)
\* the fault the JSONRPCRequest constructor raises, "" when it raises none
ValidationFault(body) ==
    CASE ~body.isDict -> "argument after ** must be a mapping"
      [] body.jsonrpc.k \notin {"absent", "str"} -> "validation error: jsonrpc"
      [] body.id.k \notin {"absent", "null", "str", "int"} -> "validation error: id"
      [] body.method.k # "str" -> "validation error: method"
      [] body.params.k \notin {"absent", "null", "dict"} -> "validation error: params"
      [] OTHER -> ""

\* the validated model: defaults filled in for the missing keys
JSONRPCRequest(body) ==
    [jsonrpc |-> IF body.jsonrpc = Absent THEN "2.0" ELSE body.jsonrpc.v,
     id |-> DictGet(body.id),
     method |-> body.method.v,
     params |-> body.params]

\* `rpc_request.params or {}` (lines 201, 207)
ParamsOrEmpty(params) ==
    IF params.k = "dict" THEN params
    ELSE [k |-> "dict", name |-> Absent, arguments |-> NoArguments]

(***************************************************************************)
(* The handlers (lines 113-218).                                           *)
(***************************************************************************)
handle_list_tools(request_id) ==
    Handled(JSONRPCResponse(request_id, [k |-> "tools", content |-> <<>>], NoError), <<>>)

handle_initialize(request_id, params) ==
    Handled(JSONRPCResponse(request_id, [k |-> "initialize", content |-> <<>>], NoError), <<>>)

NewsToolName == "news_sentiment_tool"

TechToolName_typo == "technical_analysis"
TechToolName == "technical_analysis_tool"

Truthy_emptyStringOnly(j) == j # JStr("")
\* `not ticker_symbol` is ~TickerGiven(ticker_symbol)
TickerGiven(j) == Truthy(j)

\* the body of one tool branch (lines 128-144, 147-163), after the name matched
ToolBranch(request_id, arguments, tool, label, text) ==
    LET ticker_symbol == DictGet(arguments.ticker_symbol)
    IN  IF ~TickerGiven(ticker_symbol)
        THEN Handled(JSONRPCResponse(request_id, NoResult,
                        JSONRPCError(CodeInvalidParams, <<"ticker_symbol is required">>)),
                     <<>>)
        ELSE IF text = ProviderRaised
        THEN \* a fault leaving the provider is caught at line 171
             Handled(JSONRPCResponse(request_id, NoResult,
                        JSONRPCError(CodeInternalError, <<"Internal error", "provider fault">>)),
                     <<[tool |-> tool, ticker_symbol |-> ticker_symbol, returned |-> text]>>)
        ELSE Handled(JSONRPCResponse(request_id,
                        TextContent(<<label, ticker_symbol.v, text>>), NoError),
                     <<[tool |-> tool, ticker_symbol |-> ticker_symbol, returned |-> text]>>)

\* the else branch of handle_call_tool (lines 165-169)
UnknownTool_asInvalidParams(request_id, tool_name) ==
    Handled(JSONRPCResponse(request_id, NoResult,
               JSONRPCError(CodeInvalidParams, <<"Unknown tool", tool_name.v>>)),
            <<>>)
UnknownTool(request_id, tool_name) ==
    Handled(JSONRPCResponse(request_id, NoResult,
               JSONRPCError(CodeMethodNotFound, <<"Unknown tool", tool_name.v>>)),
            <<>>)

handle_call_tool(request_id, params, src) ==
    LET tool_name == DictGet(params.name)
        \* params.get("arguments", {}): only a missing key reads as {}
        arguments == IF params.arguments.k = "absent"
                     THEN [k |-> "dict", ticker_symbol |-> Absent]
                     ELSE params.arguments
        registered == tool_name \in {JStr(NewsToolName), JStr(TechToolName)}
    IN  IF registered /\ arguments.k # "dict"
        THEN \* arguments.get raises AttributeError, caught at line 171
             Handled(JSONRPCResponse(request_id, NoResult,
                        JSONRPCError(CodeInternalError,
                                     <<"Internal error", "object has no attribute 'get'">>)),
                     <<>>)
        ELSE IF tool_name = JStr(NewsToolName)
        THEN ToolBranch(request_id, arguments, NewsToolName,
                        "News sentiment analysis for",
                        fetch_news_sentiment(arguments.ticker_symbol, src))
        ELSE IF tool_name = JStr(TechToolName)
        THEN ToolBranch(request_id, arguments, TechToolName,
                        "Technical analysis for",
                        fetch_technical_analysis(arguments.ticker_symbol, src))
        ELSE UnknownTool(request_id, tool_name)

handle_single_request(body, src) ==
    IF ValidationFault(body) # ""
    THEN \* line 215: the response is built without an id
         Handled(JSONRPCResponse(JNull, NoResult,
                    JSONRPCError(CodeInternalError,
                                 <<"Internal error", ValidationFault(body)>>)),
                 <<>>)
    ELSE LET rpc_request == JSONRPCRequest(body)
         IN  CASE rpc_request.method = "initialize" ->
                    handle_initialize(rpc_request.id, ParamsOrEmpty(rpc_request.params))
               [] rpc_request.method = "tools/list" ->
                    handle_list_tools(rpc_request.id)
               [] rpc_request.method = "tools/call" ->
                    handle_call_tool(rpc_request.id, ParamsOrEmpty(rpc_request.params), src)
               [] OTHER ->
                    Handled(JSONRPCResponse(rpc_request.id, NoResult,
                               JSONRPCError(CodeMethodNotFound,
                                            <<"Method not found", rpc_request.method>>)),
                            <<>>)


(***************************************************************************)
(* mcp_endpoint (lines 221-262).                                           *)
(***************************************************************************)
NoBody == [kind |-> "none", elems |-> <<>>, fault |-> ""]
NoReply == [kind |-> "none", items |-> <<>>]

\* what `await request.json()` can raise on a body that is not JSON: malformed
\* JSON text raises json.JSONDecodeError; bytes that are not valid UTF-8 raise
\* UnicodeDecodeError, a ValueError that is not a JSONDecodeError
DecodeFaults == {"JSONDecodeError", "UnicodeDecodeError"}

ParseErrorReply ==
    model_dump(JSONRPCResponse(JNull, NoResult, JSONRPCError(CodeParseError, <<"Parse error">>)))

\* responses.append(...) of the batch loop (lines 242, 244)
BatchAppend_front(responses, item) == <<item>> \o responses
BatchAppend(responses, item) == Append(responses, item)

\* the provider calls of one handler, tagged with the index of the request
Logged(fetched, idx, src) ==
    [j \in 1..Len(fetched) |->
        [idx |-> idx, tool |-> fetched[j].tool, ticker_symbol |-> fetched[j].ticker_symbol,
         src |-> src, returned |-> fetched[j].returned]]

GwInit ==
    /\ gwPc = "idle"
    /\ gwBody = NoBody
    /\ gwIdx = 0
    /\ gwResponses = <<>>
    /\ gwReply = NoReply
    /\ providerLog = <<>>

\* body is a dict (lines 229-234)
McpSingle ==
    /\ gwPc = "idle"
    /\ \E body \in DictBodies, src \in SourceOutcomes :
          LET h == handle_single_request(body, src)
          IN  /\ gwBody' = [kind |-> "dict", elems |-> <<body>>, fault |-> ""]
              /\ gwReply' = [kind |-> "single", items |-> <<model_dump(h.resp)>>]
              /\ providerLog' = Logged(h.fetched, 1, src)
    /\ gwPc' = "replied"
    /\ UNCHANGED <<gwIdx, gwResponses>>
    /\ UNCHANGED notGw

\* body is a list (lines 237-238): the loop starts
McpBatchBegin ==
    /\ gwPc = "idle"
    /\ \E body \in Batches :
          gwBody' = [kind |-> "list", elems |-> body, fault |-> ""]
    /\ gwPc' = "batch"
    /\ gwIdx' = 1
    /\ gwResponses' = <<>>
    /\ UNCHANGED <<gwReply, providerLog>>
    /\ UNCHANGED notGw

\* one iteration of `for req in body` (lines 239-244)
McpBatchStep ==
    /\ gwPc = "batch"
    /\ gwIdx <= Len(gwBody.elems)
    /\ \E src \in SourceOutcomes :
          LET h == handle_single_request(gwBody.elems[gwIdx], src)
          IN  /\ gwResponses' = BatchAppend(gwResponses, model_dump(h.resp))
              /\ providerLog' = providerLog \o Logged(h.fetched, gwIdx, src)
    /\ gwIdx' = gwIdx + 1
    /\ UNCHANGED <<gwPc, gwBody, gwReply>>
    /\ UNCHANGED notGw

\* `return responses` (line 245)
McpBatchReturn ==
    /\ gwPc = "batch"
    /\ gwIdx > Len(gwBody.elems)
    /\ gwReply' = [kind |-> "batch", items |-> gwResponses]
    /\ gwPc' = "replied"
    /\ UNCHANGED <<gwBody, gwIdx, gwResponses, providerLog>>
    /\ UNCHANGED notGw

\* body is JSON but neither a dict nor a list (lines 247-251)
McpNotObject ==
    /\ gwPc = "idle"
    /\ gwBody' = [kind |-> "other", elems |-> <<>>, fault |-> ""]
    /\ gwReply' = [kind |-> "single", items |-> <<ParseErrorReply>>]
    /\ gwPc' = "replied"
    /\ UNCHANGED <<gwIdx, gwResponses, providerLog>>
    /\ UNCHANGED notGw

\* `await request.json()` raises (lines 226, 253-262)
McpUndecodable ==
    /\ gwPc = "idle"
    /\ \E fault \in DecodeFaults :
          /\ gwBody' = [kind |-> "undecodable", elems |-> <<>>, fault |-> fault]
          /\ gwReply' =
                [kind |-> "single",
                 items |-> << IF fault = "JSONDecodeError"
                              THEN ParseErrorReply
                              ELSE model_dump(JSONRPCResponse(JNull, NoResult,
                                      JSONRPCError(CodeInternalError,
                                                   <<"Internal error", fault>>))) >>]
    /\ gwPc' = "replied"
    /\ UNCHANGED <<gwIdx, gwResponses, providerLog>>
    /\ UNCHANGED notGw

\* the response is sent; the endpoint is ready for the next request
McpDone ==
    /\ gwPc = "replied"
    /\ gwPc' = "idle"
    /\ gwBody' = NoBody
    /\ gwIdx' = 0
    /\ gwResponses' = <<>>
    /\ gwReply' = NoReply
    /\ providerLog' = <<>>
    /\ UNCHANGED notGw

GwNext ==
    \/ McpSingle
    \/ McpBatchBegin
    \/ McpBatchStep
    \/ McpBatchReturn
    \/ McpNotObject
    \/ McpUndecodable
    \/ McpDone


(***************************************************************************)
(* The tool client: MCPToolExecutor.call_tool (src/mcp_executor.py lines   *)
(* 25-70).                                                                 *)
(***************************************************************************)
\* the names and tickers the tool functions and agents call with
ClientToolNames == {"news_sentiment_tool", "technical_analysis_tool", "unknown_tool"}
ClientTickers == {JStr("AAPL"), JStr("MSFT"), JStr("TSLA"), JStr("")}

\* rpc_request (lines 29-37): id 1, method tools/call
RpcRequest(name, arguments) ==
    [isDict |-> TRUE, jsonrpc |-> JStr("2.0"), id |-> JInt("1"),
     method |-> JStr("tools/call"),
     params |-> [k |-> "dict", name |-> JStr(name), arguments |-> arguments]]

\* a 200 response whose JSON body is not this gateway's answer to tools/call:
\*   a result without a content block, and an envelope with neither field;
\*   a result next to "error": null (an envelope dumped with its None fields);
\*   an error object next to a result, and an error that is a string;
\*   a first content block without "text" (type image), and one that is not
\*   an object (type nondict)
ForeignReplies ==
    {model_dump(JSONRPCResponse(JInt("1"), [k |-> "tools", content |-> <<>>], NoError)),
     model_dump(JSONRPCResponse(JInt("1"), NoResult, NoError)),
     model_dump_all(JSONRPCResponse(JInt("1"), TextContent(<<"foreign", "text">>), NoError)),
     model_dump(JSONRPCResponse(JInt("1"), TextContent(<<"foreign", "text">>),
                                JSONRPCError(-32000, <<"Server error">>))),
     model_dump(JSONRPCResponse(JInt("1"), NoResult,
                                [k |-> "string", code |-> 0, message |-> <<"boom">>])),
     model_dump(JSONRPCResponse(JInt("1"),
                                [k |-> "content", content |-> <<[type |-> "image", text |-> <<>>]>>],
                                NoError)),
     model_dump(JSONRPCResponse(JInt("1"),
                                [k |-> "content",
                                 content |-> <<[type |-> "nondict", text |-> <<"just", "a", "string">>],
                                               [type |-> "text", text |-> <<"second", "block">>]>>],
                                NoError))}

\* what the HTTP exchange of lines 39-42 can do
\*   connect_error      client.post raises httpx.ConnectError
\*   http_error_status  response.raise_for_status() raises httpx.HTTPStatusError
\*   undecodable_body   response.json() raises JSONDecodeError
\*   null               the body is JSON null
\*   json               the body is a JSON object: `reply`
Exchanges(name, arguments) ==
    {[kind |-> kk, reply |-> ParseErrorReply] :
        kk \in {"connect_error", "http_error_status", "undecodable_body", "null"}}
    \cup {[kind |-> "json",
           reply |-> model_dump(handle_single_request(RpcRequest(name, arguments), src).resp)] :
             src \in SourceOutcomes}
    \cup {[kind |-> "json", reply |-> r] : r \in ForeignReplies}

Returned(tag, code, text) == [kind |-> "returned", tag |-> tag, code |-> code, text |-> text]
Raised(fault) == [kind |-> "raised", tag |-> fault, code |-> 0, text |-> <<>>]
NoOutcome == [kind |-> "none", tag |-> "", code |-> 0, text |-> <<>>]

\* how a fault raised inside the `async with` block of call_tool leaves it:
\* there is no try/except in call_tool, the fault propagates to the caller
TransportFault(fault) == Raised(fault)

\* lines 47-54: the text made from the error field; code and message of an
\* error object go into "MCP Error [code]: message", any other error value
\* into "MCP Error: value"
ErrorText_withoutCode(error_info) ==
    Returned("mcp_error", 0, <<"MCP Error">> \o error_info.message)
ErrorText(error_info) ==
    IF error_info.k = "error"
    THEN Returned("mcp_error", error_info.code, <<"MCP Error">> \o error_info.message)
    ELSE Returned("mcp_error_plain", 0, <<"MCP Error">> \o error_info.message)

\* lines 62-66: the text taken from the first content block
ContentText_typeOnly(content) ==
    Returned("text", 0, <<content[1].type>>)
ContentText(content) ==
    LET first_content == content[1]
    IN  CASE first_content.type = "nondict" ->
                 Returned("unexpected_content", 0,
                          <<"Unexpected content format">> \o first_content.text)
          [] first_content.type = "text" -> Returned("text", 0, first_content.text)
          [] OTHER -> Returned("no_text", 0, <<"No text content available">>)

call_tool(name, arguments, exchange) ==
    CASE exchange.kind = "connect_error" -> TransportFault("httpx.ConnectError")
      [] exchange.kind = "http_error_status" -> TransportFault("httpx.HTTPStatusError")
      [] exchange.kind = "undecodable_body" -> TransportFault("json.JSONDecodeError")
      [] exchange.kind = "null" ->
            Returned("none_response", 0, <<"Error: Received None response from MCP server">>)
      [] OTHER ->
            LET rpc_response == exchange.reply
            IN  IF "error" \in rpc_response.keys /\ rpc_response.error # NoError
                THEN ErrorText(rpc_response.error)
                ELSE IF "result" \notin rpc_response.keys \/ rpc_response.result = NoResult
                THEN Returned("no_result", 0, <<"Error: No result field in MCP response">>)
                ELSE IF Len(rpc_response.result.content) > 0
                THEN ContentText(rpc_response.result.content)
                ELSE Returned("no_content", 0,
                              <<"No content returned. Full result", rpc_response.result.k>>)

NoCall == [name |-> "", arguments |-> NoArguments]
NoExchange == [kind |-> "none", reply |-> ParseErrorReply]

ClInit ==
    /\ clPc = "idle"
    /\ clCall = NoCall
    /\ clExchange = NoExchange
    /\ clOutcome = NoOutcome

\* call_tool(name, {"ticker_symbol": ticker}) up to `await client.post` (lines 29-40)
CallToolSend ==
    /\ clPc = "idle"
    /\ \E name \in ClientToolNames, ticker \in ClientTickers :
          clCall' = [name |-> name, arguments |-> [k |-> "dict", ticker_symbol |-> ticker]]
    /\ clPc' = "awaiting"
    /\ UNCHANGED <<clExchange, clOutcome>>
    /\ UNCHANGED notCl

\* the exchange completes or faults, and call_tool runs to its end (lines 40-70)
CallToolFinish ==
    /\ clPc = "awaiting"
    /\ \E exchange \in Exchanges(clCall.name, clCall.arguments) :
          /\ clExchange' = exchange
          /\ clOutcome' = call_tool(clCall.name, clCall.arguments, exchange)
    /\ clPc' = clOutcome'.kind
    /\ UNCHANGED clCall
    /\ UNCHANGED notCl

\* the caller takes the text, or the fault, and may call again
CallToolDone ==
    /\ clPc \in {"returned", "raised"}
    /\ clPc' = "idle"
    /\ clCall' = NoCall
    /\ clExchange' = NoExchange
    /\ clOutcome' = NoOutcome
    /\ UNCHANGED notCl

ClNext ==
    \/ CallToolSend
    \/ CallToolFinish
    \/ CallToolDone

(***************************************************************************)
(* The conversation loop (src/multi_agent_system.py).  The team is built   *)
(* by _create_team (lines 60-68) and driven by analyze_stock (lines 70-94).*)
(* A text is a sequence of symbols; the termination text is the two-symbol *)
(* sequence FINAL VERDICT, matched as a contiguous, case-sensitive         *)
(* subsequence.                                                            *)
(***************************************************************************)
\* list(self.agents.values()): the insertion order of _create_agents (lines 54-58)
Participants_technicalFirst == <<"TechnicalAnalyst", "SentimentAnalyst", "Orchestrator">>
Participants == <<"SentimentAnalyst", "TechnicalAnalyst", "Orchestrator">>

\* TextMentionTermination("FINAL VERDICT") (line 67)
TerminationText_lower == <<"final", "verdict">>
TerminationText == <<"FINAL", "VERDICT">>

\* max_turns=self.max_turns (line 66)
TeamMaxTurns_plusOne == max_turns + 1
TeamMaxTurns == max_turns

\* `phrase in text`
Contains(text, phrase) ==
    \E i \in 1..(Len(text) - Len(phrase) + 1) :
        SubSeq(text, i, i + Len(phrase) - 1) = phrase

\* the utterances an agent can produce
Utterances ==
    {<<"The", "company", "performance", "is", "STRONG">>,
     <<"FINAL", "VERDICT">>,
     <<"Here", "is", "a", "summary", "FINAL", "VERDICT", "MIXED", "performance">>,
     <<"final", "verdict">>,
     <<"FINAL", "and", "VERDICT">>,
     <<"VERDICT", "FINAL">>}

ChatInit ==
    /\ max_turns \in 1..MaxTurnsBound
    /\ chatState = "READY"
    /\ stopReason = "none"
    /\ turnIndex = 0
    /\ transcript = <<>>

\* analyze_stock calls self.team.run(task=task) (line 88)
AnalyzeStock ==
    /\ chatState = "READY"
    /\ chatState' = "RUNNING"
    /\ UNCHANGED <<max_turns, stopReason, turnIndex, transcript>>
    /\ UNCHANGED notChat

\* the termination check and the turn budget, after an utterance
AfterUtterance(text, turns) ==
    IF Contains(text, TerminationText)
    THEN [state |-> "TERMINATED", reason |-> "phrase-matched"]
    ELSE IF turns >= TeamMaxTurns
    THEN [state |-> "TERMINATED", reason |-> "turn-budget-exhausted"]
    ELSE [state |-> "RUNNING", reason |-> "none"]

\* the participant whose turn is next: round-robin over the team's list
Speaker == Participants[(turnIndex % Len(Participants)) + 1]

\* what one turn does to the conversation: the current participant speaks,
\* then the loop checks for the end
TurnEffect ==
    /\ chatState = "RUNNING"
    /\ \E text \in Utterances :
          LET after == AfterUtterance(text, turnIndex + 1)
          IN  /\ transcript' = Append(transcript,
                     [source |-> Speaker, content |-> text])
              /\ chatState' = after.state
              /\ stopReason' = after.reason
    /\ turnIndex' = turnIndex + 1
    /\ UNCHANGED max_turns

\* one turn
Turn ==
    /\ TurnEffect
    /\ UNCHANGED notChat

\* a fault raised while driving a turn leaves team.run and analyze_stock
\* re-raises it (lines 92-94)
TurnFault ==
    /\ chatState = "RUNNING"
    /\ chatState' = "FAULTED"
    /\ UNCHANGED <<max_turns, stopReason, turnIndex, transcript>>
    /\ UNCHANGED notChat

ChatNext ==
    \/ AnalyzeStock
    \/ Turn
    \/ TurnFault

(***************************************************************************)
(* A turn and its tool round-trips.  An agent may invoke the tools it      *)
(* declares (src/agents.py) before it speaks; a tool function              *)
(* (src/tools.py) sends one tools/call through the executor and hands the  *)
(* text back to the agent.                                                 *)
(***************************************************************************)
MaxToolCalls == 2

\* tools=[...] of each agent (src/agents.py lines 34, 61; the orchestrator has none)
AgentTools(name) ==
    CASE name = "SentimentAnalyst" -> {"news_sentiment_tool"}
      [] name = "TechnicalAnalyst" -> {"technical_analysis_tool"}
      [] OTHER -> {}

\* _handle_async_call hands the result over only once the call has completed:
\* it waits for task.done() or runs the coroutine to its end (lines 17-24)
ReturnsBeforeCompletion == FALSE
WaitsForCompletion == TRUE

ConvInit ==
    /\ turnPc = "idle"
    /\ toolsOutstanding = 0
    /\ toolCalls = 0

\* the loop gives the turn to the next participant
TurnBegin ==
    /\ chatState = "RUNNING"
    /\ turnPc = "idle"
    /\ turnPc' = "speaking"
    /\ toolCalls' = 0
    /\ UNCHANGED toolsOutstanding
    /\ UNCHANGED <<asyncVars, sysVars, gwVars, clVars, chatVars, exVars, lockVars, mainVars>>

\* news_sentiment_tool / technical_analysis_tool: the request leaves for the gateway
ToolCallSend ==
    /\ chatState = "RUNNING"
    /\ turnPc = "speaking"
    /\ AgentTools(Speaker) # {}
    /\ toolCalls < MaxToolCalls
    /\ toolCalls' = toolCalls + 1
    /\ toolsOutstanding' = toolsOutstanding + 1
    /\ turnPc' = IF WaitsForCompletion THEN "in_tool" ELSE "speaking"
    /\ UNCHANGED <<asyncVars, sysVars, gwVars, clVars, chatVars, exVars, lockVars, mainVars>>

\* the gateway's answer arrives and the tool function returns its text
ToolCallReturn ==
    /\ toolsOutstanding > 0
    /\ toolsOutstanding' = toolsOutstanding - 1
    /\ turnPc' = IF turnPc = "in_tool" THEN "speaking" ELSE turnPc
    /\ UNCHANGED toolCalls
    /\ UNCHANGED <<asyncVars, sysVars, gwVars, clVars, chatVars, exVars, lockVars, mainVars>>

\* the participant speaks: its turn is over
TurnSpeak ==
    /\ turnPc = "speaking"
    /\ TurnEffect
    /\ turnPc' = "idle"
    /\ UNCHANGED <<toolsOutstanding, toolCalls>>
    /\ UNCHANGED <<asyncVars, sysVars, gwVars, clVars, exVars, lockVars, mainVars>>

\* a fault while the participant is being driven ends the run
ConvFault ==
    /\ turnPc = "speaking"
    /\ TurnFault

ConvNext ==
    \/ AnalyzeStock
    \/ TurnBegin
    \/ ToolCallSend
    \/ ToolCallReturn
    \/ TurnSpeak
    \/ ConvFault

(***************************************************************************)
(* The executor's connection handle and the process-wide singleton         *)
(* (src/mcp_executor.py).  Handles and instances are numbered in the order *)
(* of their creation; 0 stands for None.  A handle is open while it is in  *)
(* openHandles; a handle that left the set is closed for good.             *)
(***************************************************************************)
MaxHandles == 3
MaxInstances == 3

\* self.client, with the handles that exist (line 12)
Executor(client, open, next) == [client |-> client, open |-> open, next |-> next]

\* `self.client is None or self.client.is_closed` (line 19)
NoUsableClient(st) == st.client = 0 \/ st.client \notin st.open

\* ensure_connection (lines 15-23)
ensure_connection(st) ==
    IF NoUsableClient(st)
    THEN Executor(st.next, st.open \cup {st.next}, st.next + 1)
    ELSE st

\* httpx's aclose(): the handle is closed
aclose_leavesOpen(open, handle) == open
aclose(open, handle) == open \ {handle}

\* disconnect (lines 73-78): the handle is dropped only when it was open
disconnect(st) ==
    IF st.client # 0 /\ st.client \in st.open
    THEN Executor(0, aclose(st.open, st.client), st.next)
    ELSE st

\* the executor that the global names, as a record
ThisExecutor == Executor(exClient, openHandles, nextHandle)

\* `if _mcp_executor is None` (line 87)
MustCreate_always(executor) == TRUE
MustCreate(executor) == executor = 0

\* `_mcp_executor = None` (line 98)
Dropped_kept(executor) == executor
Dropped(executor) == 0

\* os.getenv("MCP_SERVER_URL", "http://localhost:8000") (line 88)
DefaultUrl == "http://localhost:8000"
ServerUrl(env) == IF env = "unset" THEN DefaultUrl ELSE env

NoOp == [op |-> "none", instance |-> 0, handle |-> 0, before |-> 0, changed |-> FALSE]

ExInit ==
    /\ mcpExecutor = 0
    /\ exClient = 0
    /\ openHandles = {}
    /\ nextHandle = 1
    /\ nextInstance = 1
    /\ gotten = {}
    /\ retired = {}
    /\ lastOp = NoOp
    /\ exUrl = "none"

\* get_mcp_executor (lines 84-90): the instance the global names afterwards
GetBinding ==
    /\ IF MustCreate(mcpExecutor)
       THEN /\ nextInstance <= MaxInstances
            /\ mcpExecutor' = nextInstance
            /\ nextInstance' = nextInstance + 1
            /\ exClient' = 0
            /\ exUrl' = ServerUrl(envUrl)
       ELSE UNCHANGED <<exUrl, mcpExecutor, nextInstance, exClient>>
    /\ gotten' = gotten \cup {mcpExecutor'}

\* executor = get_mcp_executor()
GetMcpExecutor ==
    /\ GetBinding
    /\ lastOp' = [NoOp EXCEPT !.op = "get_mcp_executor", !.instance = mcpExecutor',
                              !.before = mcpExecutor]
    /\ UNCHANGED <<openHandles, nextHandle, retired>>
    /\ UNCHANGED <<asyncVars, sysVars, gwVars, clVars, chatVars, convVars, lockVars, mainVars>>

\* await executor.ensure_connection()
EnsureConnection ==
    /\ mcpExecutor # 0
    /\ NoUsableClient(ThisExecutor) => nextHandle <= MaxHandles
    /\ LET st == ensure_connection(ThisExecutor)
       IN  /\ exClient' = st.client
           /\ openHandles' = st.open
           /\ nextHandle' = st.next
           /\ lastOp' = [NoOp EXCEPT !.op = "ensure_connection", !.instance = mcpExecutor,
                                     !.handle = st.client, !.before = exClient,
                                     !.changed = (st # ThisExecutor)]
    /\ UNCHANGED <<exUrl, mcpExecutor, nextInstance, gotten, retired>>
    /\ UNCHANGED <<asyncVars, sysVars, gwVars, clVars, chatVars, convVars, lockVars, mainVars>>

\* await executor.call_tool(...): the request goes over a client opened for
\* this call and closed when the `async with` block is left (lines 39-42)
ExecutorCallTool ==
    /\ mcpExecutor # 0
    /\ nextHandle <= MaxHandles
    /\ nextHandle' = nextHandle + 1
    /\ lastOp' = [NoOp EXCEPT !.op = "call_tool", !.instance = mcpExecutor,
                              !.handle = nextHandle, !.before = exClient]
    /\ UNCHANGED <<exUrl, mcpExecutor, exClient, openHandles, nextInstance, gotten, retired>>
    /\ UNCHANGED <<asyncVars, sysVars, gwVars, clVars, chatVars, convVars, lockVars, mainVars>>

\* await executor.disconnect()
Disconnect ==
    /\ mcpExecutor # 0
    /\ LET st == disconnect(ThisExecutor)
       IN  /\ exClient' = st.client
           /\ openHandles' = st.open
           /\ lastOp' = [NoOp EXCEPT !.op = "disconnect", !.instance = mcpExecutor,
                                     !.handle = st.client, !.before = exClient,
                                     !.changed = (st # ThisExecutor)]
    /\ UNCHANGED <<exUrl, mcpExecutor, nextHandle, nextInstance, gotten, retired>>
    /\ UNCHANGED <<asyncVars, sysVars, gwVars, clVars, chatVars, convVars, lockVars, mainVars>>

\* the owned client is closed by its holder: executor.client is a public
\* attribute, and both operations test is_closed
ClientClosed ==
    /\ mcpExecutor # 0
    /\ exClient \in openHandles
    /\ openHandles' = aclose(openHandles, exClient)
    /\ lastOp' = [NoOp EXCEPT !.op = "aclose", !.instance = mcpExecutor,
                              !.handle = exClient, !.before = exClient, !.changed = TRUE]
    /\ UNCHANGED <<exUrl, mcpExecutor, exClient, nextHandle, nextInstance, gotten, retired>>
    /\ UNCHANGED <<asyncVars, sysVars, gwVars, clVars, chatVars, convVars, lockVars, mainVars>>

\* cleanup_mcp_executor (lines 93-98): what it does to the singleton
CleanupEffect ==
    /\ IF mcpExecutor # 0
       THEN LET st == disconnect(ThisExecutor)
            IN  /\ openHandles' = st.open
                /\ mcpExecutor' = Dropped(mcpExecutor)
                /\ exClient' = IF mcpExecutor' = 0 THEN 0 ELSE st.client
                /\ exUrl' = IF mcpExecutor' = 0 THEN "none" ELSE exUrl
                /\ retired' = retired \cup {mcpExecutor}
                /\ gotten' = {}
       ELSE UNCHANGED <<exUrl, mcpExecutor, exClient, openHandles, retired, gotten>>
    /\ lastOp' = [NoOp EXCEPT !.op = "cleanup_mcp_executor", !.instance = mcpExecutor',
                              !.before = mcpExecutor,
                              !.changed = (<<mcpExecutor', exClient', openHandles'>>
                                             # <<mcpExecutor, exClient, openHandles>>)]
    /\ UNCHANGED <<nextHandle, nextInstance>>

\* await cleanup_mcp_executor()
CleanupMcpExecutor ==
    /\ CleanupEffect
    /\ UNCHANGED <<asyncVars, sysVars, gwVars, clVars, chatVars, convVars, lockVars, mainVars>>

ExNext ==
    \/ GetMcpExecutor
    \/ EnsureConnection
    \/ ExecutorCallTool
    \/ Disconnect
    \/ ClientClosed
    \/ CleanupMcpExecutor

(***************************************************************************)
(* Coroutines sharing one executor.  Each task runs ensure_connection or   *)
(* disconnect, one statement at a time; `async with self._client_lock`     *)
(* (lines 13, 17, 75) admits one task at a time to the guarded statements. *)
(***************************************************************************)
NumTasks == 2
Tasks == 1..NumTasks

\* asyncio.Lock: acquire() goes through only while nobody holds the lock
LockFree_unguarded == TRUE
LockFree == lockHolder = 0

\* the positions inside the `async with` blocks
Guarded == {"e_check", "e_create", "d_check", "d_aclose", "d_clear"}

LockInit ==
    /\ taskPc = [t \in Tasks |-> "idle"]
    /\ lockHolder = 0
    /\ lastCreated = 0

\* a coroutine calls ensure_connection
EnsureBegin(t) ==
    /\ taskPc[t] = "idle"
    /\ nextHandle
         + Cardinality({u \in Tasks : taskPc[u] \in {"e_acquire", "e_check", "e_create"}})
         <= MaxHandles
    /\ taskPc' = [taskPc EXCEPT ![t] = "e_acquire"]
    /\ UNCHANGED <<lockHolder, lastCreated>>
    /\ UNCHANGED <<asyncVars, sysVars, gwVars, clVars, chatVars, convVars, exVars, mainVars>>

\* async with self._client_lock (line 17)
EnsureAcquire(t) ==
    /\ taskPc[t] = "e_acquire"
    /\ LockFree
    /\ lockHolder' = t
    /\ taskPc' = [taskPc EXCEPT ![t] = "e_check"]
    /\ UNCHANGED lastCreated
    /\ UNCHANGED <<asyncVars, sysVars, gwVars, clVars, chatVars, convVars, exVars, mainVars>>

\* if self.client is None or self.client.is_closed (line 19); leaving the
\* block releases the lock
EnsureCheck(t) ==
    /\ taskPc[t] = "e_check"
    /\ IF NoUsableClient(ThisExecutor)
       THEN /\ taskPc' = [taskPc EXCEPT ![t] = "e_create"]
            /\ UNCHANGED lockHolder
       ELSE /\ taskPc' = [taskPc EXCEPT ![t] = "idle"]
            /\ lockHolder' = 0
    /\ UNCHANGED lastCreated
    /\ UNCHANGED <<asyncVars, sysVars, gwVars, clVars, chatVars, convVars, exVars, mainVars>>

\* self.client = httpx.AsyncClient(...) (lines 20-23), then the lock is released
EnsureCreate(t) ==
    /\ taskPc[t] = "e_create"
    /\ exClient' = nextHandle
    /\ openHandles' = openHandles \cup {nextHandle}
    /\ nextHandle' = nextHandle + 1
    /\ lastCreated' = nextHandle
    /\ lockHolder' = 0
    /\ taskPc' = [taskPc EXCEPT ![t] = "idle"]
    /\ UNCHANGED <<exUrl, mcpExecutor, nextInstance, gotten, retired, lastOp>>
    /\ UNCHANGED <<asyncVars, sysVars, gwVars, clVars, chatVars, convVars, mainVars>>

\* a coroutine calls disconnect
DisconnectBegin(t) ==
    /\ taskPc[t] = "idle"
    /\ taskPc' = [taskPc EXCEPT ![t] = "d_acquire"]
    /\ UNCHANGED <<lockHolder, lastCreated>>
    /\ UNCHANGED <<asyncVars, sysVars, gwVars, clVars, chatVars, convVars, exVars, mainVars>>

\* async with self._client_lock (line 75)
DisconnectAcquire(t) ==
    /\ taskPc[t] = "d_acquire"
    /\ LockFree
    /\ lockHolder' = t
    /\ taskPc' = [taskPc EXCEPT ![t] = "d_check"]
    /\ UNCHANGED lastCreated
    /\ UNCHANGED <<asyncVars, sysVars, gwVars, clVars, chatVars, convVars, exVars, mainVars>>

\* if self.client and not self.client.is_closed (line 76)
DisconnectCheck(t) ==
    /\ taskPc[t] = "d_check"
    /\ IF exClient # 0 /\ exClient \in openHandles
       THEN /\ taskPc' = [taskPc EXCEPT ![t] = "d_aclose"]
            /\ UNCHANGED lockHolder
       ELSE /\ taskPc' = [taskPc EXCEPT ![t] = "idle"]
            /\ lockHolder' = 0
    /\ UNCHANGED lastCreated
    /\ UNCHANGED <<asyncVars, sysVars, gwVars, clVars, chatVars, convVars, exVars, mainVars>>

\* await self.client.aclose() (line 77): the task is suspended here
DisconnectAclose(t) ==
    /\ taskPc[t] = "d_aclose"
    /\ openHandles' = aclose(openHandles, exClient)
    /\ taskPc' = [taskPc EXCEPT ![t] = "d_clear"]
    /\ UNCHANGED <<lockHolder, lastCreated>>
    /\ UNCHANGED <<exUrl, mcpExecutor, exClient, nextHandle, nextInstance, gotten, retired, lastOp>>
    /\ UNCHANGED <<asyncVars, sysVars, gwVars, clVars, chatVars, convVars, mainVars>>

\* self.client = None (line 78), then the lock is released
DisconnectClear(t) ==
    /\ taskPc[t] = "d_clear"
    /\ exClient' = 0
    /\ lockHolder' = 0
    /\ taskPc' = [taskPc EXCEPT ![t] = "idle"]
    /\ UNCHANGED lastCreated
    /\ UNCHANGED <<exUrl, mcpExecutor, openHandles, nextHandle, nextInstance, gotten, retired, lastOp>>
    /\ UNCHANGED <<asyncVars, sysVars, gwVars, clVars, chatVars, convVars, mainVars>>

LockNext ==
    \/ \E t \in Tasks : EnsureBegin(t)
    \/ \E t \in Tasks : EnsureAcquire(t)
    \/ \E t \in Tasks : EnsureCheck(t)
    \/ \E t \in Tasks : EnsureCreate(t)
    \/ \E t \in Tasks : DisconnectBegin(t)
    \/ \E t \in Tasks : DisconnectAcquire(t)
    \/ \E t \in Tasks : DisconnectCheck(t)
    \/ \E t \in Tasks : DisconnectAclose(t)
    \/ \E t \in Tasks : DisconnectClear(t)

(***************************************************************************)
(* The top-level run (src/main.py lines 50-89): main constructs the        *)
(* system, awaits analyze_stock inside try / except / finally, and awaits  *)
(* system.cleanup() in the finally block.                                  *)
(***************************************************************************)
\* a user interrupt reaches the coroutine as one of these; neither is an Exception
Interrupts == {"KeyboardInterrupt", "CancelledError"}

\* `if system:` (line 84)
CleanupGuard_never(system) == FALSE
CleanupGuard(system) == system

\* the handlers of main's try statement (lines 79-82): what is printed, and
\* whether the fault goes on after the finally block
MainHandler(fault) ==
    CASE fault = "KeyboardInterrupt" ->
             [report |-> {"main: Analysis interrupted by user"}, pending |-> "none"]
      [] fault = "Exception" ->
             [report |-> {"main: Error during analysis"}, pending |-> "none"]
      [] OTHER -> [report |-> {}, pending |-> fault]

\* analyze_stock's handler (lines 92-94): an Exception is printed and re-raised;
\* anything else passes through
AnalyzeHandler(fault) ==
    IF fault = "Exception"
    THEN [report |-> {"analyze_stock: Error during analysis"}, raised |-> fault]
    ELSE [report |-> {}, raised |-> fault]

\* the handler around system.cleanup() (lines 87-88)
CleanupHandler(fault) ==
    IF fault = "Exception"
    THEN [report |-> {"main: Error during cleanup"}, pending |-> "none"]
    ELSE [report |-> {}, pending |-> fault]

\* dict(result)['messages'][-1].content (line 74)
FinalVerdict_first(messages) == messages[1].content
FinalVerdict(messages) == messages[Len(messages)].content

MainInit ==
    /\ mainPc = "start"
    /\ mainSystem = FALSE
    /\ cleanupAttempts = 0
    /\ mainReports = {}
    /\ mainEscaped = "none"
    /\ mainVerdict = <<>>

\* OPENAI_API_KEY is not set: main prints and returns (lines 52-54)
MainNoKey ==
    /\ mainPc = "start"
    /\ mainPc' = "exited"
    /\ mainReports' = mainReports \cup {"main: Please set your OPENAI_API_KEY"}
    /\ UNCHANGED <<mainVerdict, mainSystem, cleanupAttempts, mainEscaped>>
    /\ UNCHANGED <<asyncVars, sysVars, gwVars, clVars, chatVars, convVars, exVars, lockVars>>

\* system = MultiAgentSystem(...) (lines 58-62), which may raise
MainConstruct ==
    /\ mainPc = "start"
    /\ \E ok \in BOOLEAN :
          IF ok
          THEN /\ mainSystem' = TRUE
               /\ mainPc' = "constructed"
               /\ UNCHANGED <<mainReports, mainEscaped>>
          ELSE LET h == MainHandler("Exception")
               IN  /\ mainPc' = "finally"
                   /\ mainReports' = mainReports \cup h.report
                   /\ mainEscaped' = h.pending
                   /\ UNCHANGED mainSystem
    /\ UNCHANGED <<cleanupAttempts, mainVerdict>>
    /\ UNCHANGED <<asyncVars, sysVars, gwVars, clVars, chatVars, convVars, exVars, lockVars>>

\* result = await system.analyze_stock(args.ticker) (line 73) enters team.run
MainAnalyze ==
    /\ mainPc = "constructed"
    /\ chatState = "READY"
    /\ mainPc' = "analyzing"
    /\ chatState' = "RUNNING"
    /\ UNCHANGED <<max_turns, stopReason, turnIndex, transcript>>
    /\ UNCHANGED <<mainVerdict, mainSystem, cleanupAttempts, mainReports, mainEscaped>>
    /\ UNCHANGED <<asyncVars, sysVars, gwVars, clVars, convVars, exVars, lockVars>>

\* a tool function obtains the executor during a turn (src/tools.py lines 37, 53)
MainToolUse ==
    /\ mainPc = "analyzing"
    /\ chatState = "RUNNING"
    /\ GetMcpExecutor

\* the user interrupts the run while a turn is awaited
MainInterrupt ==
    /\ mainPc = "analyzing"
    /\ chatState = "RUNNING"
    /\ \E fault \in Interrupts :
          LET a == AnalyzeHandler(fault)
              h == MainHandler(a.raised)
          IN  /\ mainReports' = mainReports \cup a.report \cup h.report
              /\ mainEscaped' = h.pending
    /\ chatState' = "INTERRUPTED"
    /\ mainPc' = "finally"
    /\ UNCHANGED <<max_turns, stopReason, turnIndex, transcript>>
    /\ UNCHANGED <<mainVerdict, mainSystem, cleanupAttempts>>
    /\ UNCHANGED <<asyncVars, sysVars, gwVars, clVars, convVars, exVars, lockVars>>

\* team.run returned: analyze_stock returns the result and main prints the
\* content of its last message (lines 73-76)
MainResult ==
    /\ mainPc = "analyzing"
    /\ chatState = "TERMINATED"
    /\ mainPc' = "finally"
    /\ mainVerdict' = FinalVerdict(transcript)
    /\ UNCHANGED <<mainSystem, cleanupAttempts, mainReports, mainEscaped>>
    /\ UNCHANGED <<asyncVars, sysVars, gwVars, clVars, chatVars, convVars, exVars, lockVars>>

\* team.run raised: analyze_stock prints and re-raises, main's handler prints
MainFault ==
    /\ mainPc = "analyzing"
    /\ chatState = "FAULTED"
    /\ LET a == AnalyzeHandler("Exception")
           h == MainHandler(a.raised)
       IN  /\ mainReports' = mainReports \cup a.report \cup h.report
           /\ mainEscaped' = h.pending
    /\ mainPc' = "finally"
    /\ UNCHANGED <<mainVerdict, mainSystem, cleanupAttempts>>
    /\ UNCHANGED <<asyncVars, sysVars, gwVars, clVars, chatVars, convVars, exVars, lockVars>>

\* the finally block (lines 83-88): cleanup is awaited when the system exists,
\* an Exception it raises is printed, and main is left
MainFinally ==
    /\ mainPc = "finally"
    /\ IF CleanupGuard(mainSystem)
       THEN /\ cleanupAttempts' = cleanupAttempts + 1
            /\ \/ /\ CleanupEffect
                  /\ UNCHANGED <<mainReports, mainEscaped>>
               \/ LET h == CleanupHandler("Exception")
                  IN  /\ UNCHANGED exVars
                      /\ mainReports' = mainReports \cup h.report
                      /\ mainEscaped' = IF h.pending = "none" THEN mainEscaped ELSE h.pending
       ELSE UNCHANGED <<cleanupAttempts, mainReports, mainEscaped, exVars>>
    /\ mainPc' = "exited"
    /\ UNCHANGED <<mainSystem, mainVerdict>>
    /\ UNCHANGED <<asyncVars, sysVars, gwVars, clVars, chatVars, convVars, lockVars>>

MainNext ==
    \/ MainNoKey
    \/ MainConstruct
    \/ MainAnalyze
    \/ MainToolUse
    \/ Turn
    \/ TurnFault
    \/ MainInterrupt
    \/ MainResult
    \/ MainFault
    \/ MainFinally

(***************************************************************************)
(* _handle_async_call (src/tools.py lines 6-24): a synchronous tool        *)
(* function hands it the coroutine of call_tool.  An event loop runs one   *)
(* callback at a time on its thread: a task scheduled on the loop is       *)
(* executed only when the loop itself has control of that thread.          *)
(***************************************************************************)
\* what the coroutine of call_tool produces when it is run to its end
CoroutineOutcomes ==
    {[kind |-> "returned", text |-> "News sentiment analysis for <ticker>"],
     [kind |-> "returned", text |-> "MCP Error [-32602]: ticker_symbol is required"],
     [kind |-> "raised", text |-> "httpx.ConnectError"]}

\* no call in progress; nest_asyncio is not installed
AsyncInit ==
    /\ asPc = "idle"
    /\ asContext = "no_loop"
    /\ asCall = [tool |-> "", ticker |-> ""]
    /\ asTask = "none"
    /\ asOutcome = [kind |-> "none", text |-> ""]
    /\ loopControl = "none"
    /\ nestAsyncio = FALSE

\* a tool function calls _handle_async_call(mcp_executor.call_tool(...))
\* (lines 38, 54), from plain synchronous code or from a callback of a
\* running event loop
ToolFunctionCall ==
    /\ asPc = "idle"
    /\ \E tool \in {"news_sentiment_tool", "technical_analysis_tool"},
          ticker \in {"AAPL", "MSFT", "TSLA"} :
          asCall' = [tool |-> tool, ticker |-> ticker]
    /\ \E context \in {"no_loop", "in_loop"} :
          /\ asContext' = context
          /\ loopControl' = IF context = "in_loop" THEN "caller" ELSE "none"
    /\ asPc' = "import"
    /\ UNCHANGED <<asTask, asOutcome, nestAsyncio>>
    /\ UNCHANGED <<sysVars, gwVars, clVars, chatVars, convVars, exVars, lockVars, mainVars>>

\* import nest_asyncio; nest_asyncio.apply(), or ImportError: pass (lines 11-15)
ApplyNestAsyncio ==
    /\ asPc = "import"
    /\ asPc' = "get_loop"
    /\ UNCHANGED <<asContext, asCall, asTask, asOutcome, loopControl, nestAsyncio>>
    /\ UNCHANGED <<sysVars, gwVars, clVars, chatVars, convVars, exVars, lockVars, mainVars>>

\* asyncio.get_running_loop() (line 18): inside a loop the task is created
\* on it (line 19), outside a loop RuntimeError leads to line 24
GetRunningLoop ==
    /\ asPc = "get_loop"
    /\ IF asContext = "in_loop"
       THEN /\ asTask' = "pending"
            /\ asPc' = "spin"
       ELSE /\ asPc' = "asyncio_run"
            /\ UNCHANGED asTask
    /\ UNCHANGED <<asContext, asCall, asOutcome, loopControl, nestAsyncio>>
    /\ UNCHANGED <<sysVars, gwVars, clVars, chatVars, convVars, exVars, lockVars, mainVars>>

\* while not task.done() (line 20), and return task.result() (line 22)
SpinTest ==
    /\ asPc = "spin"
    /\ IF asTask = "done"
       THEN /\ asPc' = asOutcome.kind
            /\ loopControl' = "loop"
       ELSE /\ asPc' = "spin_pass"
            /\ UNCHANGED loopControl
    /\ UNCHANGED <<asContext, asCall, asTask, asOutcome, nestAsyncio>>
    /\ UNCHANGED <<sysVars, gwVars, clVars, chatVars, convVars, exVars, lockVars, mainVars>>

\* pass (line 21): the caller keeps the thread
SpinPass ==
    /\ asPc = "spin_pass"
    /\ asPc' = "spin"
    /\ UNCHANGED <<asContext, asCall, asTask, asOutcome, loopControl, nestAsyncio>>
    /\ UNCHANGED <<sysVars, gwVars, clVars, chatVars, convVars, exVars, lockVars, mainVars>>

\* asyncio.run(coro) (line 24): a new loop is started and given the thread
AsyncioRun ==
    /\ asPc = "asyncio_run"
    /\ asTask' = "pending"
    /\ loopControl' = "loop"
    /\ asPc' = "run_wait"
    /\ UNCHANGED <<asContext, asCall, asOutcome, nestAsyncio>>
    /\ UNCHANGED <<sysVars, gwVars, clVars, chatVars, convVars, exVars, lockVars, mainVars>>

\* the loop that has the thread executes the pending task to its end
LoopRunsTask ==
    /\ asTask = "pending"
    /\ loopControl = "loop"
    /\ asTask' = "done"
    /\ \E outcome \in CoroutineOutcomes : asOutcome' = outcome
    /\ UNCHANGED <<asPc, asContext, asCall, loopControl, nestAsyncio>>
    /\ UNCHANGED <<sysVars, gwVars, clVars, chatVars, convVars, exVars, lockVars, mainVars>>

\* asyncio.run returns the result or raises the fault of the coroutine
AsyncioRunReturn ==
    /\ asPc = "run_wait"
    /\ asTask = "done"
    /\ asPc' = asOutcome.kind
    /\ loopControl' = "none"
    /\ UNCHANGED <<asContext, asCall, asTask, asOutcome, nestAsyncio>>
    /\ UNCHANGED <<sysVars, gwVars, clVars, chatVars, convVars, exVars, lockVars, mainVars>>

\* the tool function returns the text, or the fault leaves it
ToolFunctionDone ==
    /\ asPc \in {"returned", "raised"}
    /\ asPc' = "idle"
    /\ asContext' = "no_loop"
    /\ asCall' = [tool |-> "", ticker |-> ""]
    /\ asTask' = "none"
    /\ asOutcome' = [kind |-> "none", text |-> ""]
    /\ loopControl' = "none"
    /\ UNCHANGED nestAsyncio
    /\ UNCHANGED <<sysVars, gwVars, clVars, chatVars, convVars, exVars, lockVars, mainVars>>

AsyncNext ==
    \/ ToolFunctionCall
    \/ ApplyNestAsyncio
    \/ GetRunningLoop
    \/ SpinTest
    \/ SpinPass
    \/ AsyncioRun
    \/ LoopRunsTask
    \/ AsyncioRunReturn
    \/ ToolFunctionDone

(***************************************************************************)
(* Systems constructed in one process.  MultiAgentSystem.__init__ writes   *)
(* the URL it is given into the environment (lines 38-41); the tool        *)
(* functions reach the gateway through the singleton executor, which reads *)
(* the environment when it is constructed (src/mcp_executor.py line 88).   *)
(***************************************************************************)
MaxSystems == 2
Urls == {"http://gateway-a:8000", "http://gateway-b:8000"}

\* no system constructed yet, MCP_SERVER_URL not set
SysInit ==
    /\ systems = <<>>
    /\ running = 0
    /\ lastSent = [system |-> 0, given |-> "none", sentTo |-> "none"]
    /\ envUrl = "unset"

\* lines 38-41: a URL given to the constructor is written to the
\* environment; without one the default is written when nothing is set
EnvAfterConstruction(mcp_server_url, env) ==
    IF mcp_server_url # "none" THEN mcp_server_url
    ELSE IF env = "unset" THEN DefaultUrl
    ELSE env

\* MultiAgentSystem(mcp_server_url=...)
ConstructSystem ==
    /\ Len(systems) < MaxSystems
    /\ \E mcp_server_url \in Urls \cup {"none"} :
          /\ envUrl' = EnvAfterConstruction(mcp_server_url, envUrl)
          /\ systems' = Append(systems, mcp_server_url)
    /\ UNCHANGED <<running, lastSent>>
    /\ UNCHANGED <<asyncVars, gwVars, clVars, chatVars, convVars, exVars, lockVars, mainVars>>

\* await system.analyze_stock(ticker) begins
RunBegin ==
    /\ running = 0
    /\ \E s \in 1..Len(systems) : running' = s
    /\ UNCHANGED <<envUrl, systems, lastSent>>
    /\ UNCHANGED <<asyncVars, gwVars, clVars, chatVars, convVars, exVars, lockVars, mainVars>>

\* a tool function during the run (src/tools.py lines 37-40): it takes the
\* singleton and call_tool posts to self.server_url
SystemToolCall ==
    /\ running # 0
    /\ nextHandle <= MaxHandles
    /\ GetBinding
    /\ nextHandle' = nextHandle + 1
    /\ lastOp' = [NoOp EXCEPT !.op = "call_tool", !.instance = mcpExecutor',
                              !.handle = nextHandle, !.before = exClient']
    /\ lastSent' = [system |-> running, given |-> systems[running], sentTo |-> exUrl']
    /\ UNCHANGED <<openHandles, retired>>
    /\ UNCHANGED <<envUrl, systems, running>>
    /\ UNCHANGED <<asyncVars, gwVars, clVars, chatVars, convVars, lockVars, mainVars>>

\* the run is over
RunEnd ==
    /\ running # 0
    /\ running' = 0
    /\ UNCHANGED <<envUrl, systems, lastSent>>
    /\ UNCHANGED <<asyncVars, gwVars, clVars, chatVars, convVars, exVars, lockVars, mainVars>>

\* await system.cleanup() (src/multi_agent_system.py lines 96-98)
SystemCleanup ==
    /\ running = 0
    /\ Len(systems) > 0
    /\ CleanupEffect
    /\ UNCHANGED sysVars
    /\ UNCHANGED <<asyncVars, gwVars, clVars, chatVars, convVars, lockVars, mainVars>>

SysNext ==
    \/ ConstructSystem
    \/ RunBegin
    \/ SystemToolCall
    \/ RunEnd
    \/ SystemCleanup

(***************************************************************************)
(* Specifications.                                                         *)
(***************************************************************************)
Init ==
    /\ GwInit /\ ClInit /\ ChatInit /\ ConvInit /\ ExInit /\ LockInit /\ MainInit
    /\ AsyncInit /\ SysInit

\* the gateway alone: one client, one request at a time
InitGateway == Init /\ max_turns = 1
SpecGateway == InitGateway /\ [][GwNext]_vars

\* the tool client alone
InitClient == Init /\ max_turns = 1
SpecClient == InitClient /\ [][ClNext]_vars

\* the conversation loop alone
SpecChat == Init /\ [][ChatNext]_vars

\* the conversation loop, every awaited turn eventually completing or faulting
SpecChatLive == SpecChat /\ WF_vars(ChatNext)

\* the conversation loop with the tool round-trips of each turn
SpecConv == Init /\ [][ConvNext]_vars

\* the singleton executor, one operation at a time
SpecExecutor == InitClient /\ [][ExNext]_vars

\* before a call of _handle_async_call, with or without nest_asyncio installed
InitAsync ==
    /\ GwInit /\ ClInit /\ ChatInit /\ ConvInit /\ ExInit /\ LockInit /\ MainInit
    /\ SysInit
    /\ max_turns = 1
    /\ asPc = "idle"
    /\ asContext = "no_loop"
    /\ asCall = [tool |-> "", ticker |-> ""]
    /\ asTask = "none"
    /\ asOutcome = [kind |-> "none", text |-> ""]
    /\ loopControl = "none"
    /\ nestAsyncio \in BOOLEAN

\* _handle_async_call; every step that can be taken is eventually taken: the caller's next
\* statement, and the loop's execution of a task when the loop has the thread
SpecAsyncLive ==
    /\ InitAsync
    /\ [][AsyncNext]_vars
    /\ WF_vars(ToolFunctionCall)
    /\ WF_vars(ApplyNestAsyncio)
    /\ WF_vars(GetRunningLoop)
    /\ WF_vars(SpinTest)
    /\ WF_vars(SpinPass)
    /\ WF_vars(AsyncioRun)
    /\ WF_vars(LoopRunsTask)
    /\ WF_vars(AsyncioRunReturn)
    /\ WF_vars(ToolFunctionDone)

\* constructions, runs and cleanups in one process, whatever the environment
\* held at its start
InitSystems ==
    /\ GwInit /\ ClInit /\ ChatInit /\ ConvInit /\ ExInit /\ LockInit /\ MainInit
    /\ AsyncInit
    /\ max_turns = 1
    /\ systems = <<>>
    /\ running = 0
    /\ lastSent = [system |-> 0, given |-> "none", sentTo |-> "none"]
    /\ envUrl \in Urls \cup {"unset"}
SpecSystems == InitSystems /\ [][SysNext]_vars

\* one run of main
SpecMain == Init /\ [][MainNext]_vars

\* one executor, already constructed, shared by concurrent coroutines
InitLock ==
    /\ GwInit /\ ClInit /\ ChatInit /\ ConvInit /\ LockInit /\ MainInit
    /\ AsyncInit /\ SysInit
    /\ max_turns = 1
    /\ exUrl = DefaultUrl
    /\ mcpExecutor = 1
    /\ nextInstance = 2
    /\ gotten = {1}
    /\ exClient = 0
    /\ openHandles = {}
    /\ nextHandle = 1
    /\ retired = {}
    /\ lastOp = NoOp
SpecLock == InitLock /\ [][LockNext]_vars


(***************************************************************************)
(* Vocabulary of the properties.                                           *)
(***************************************************************************)
\* the utterance holds the literal phrase
HasVerdict(text) == Contains(text, <<"FINAL", "VERDICT">>)

\* the k-th utterance is the first one holding the phrase
FirstVerdictAt(k) ==
    /\ k \in 1..Len(transcript)
    /\ HasVerdict(transcript[k].content)
    /\ \A j \in 1..(k - 1) : ~HasVerdict(transcript[j].content)

NoVerdictYet == \A j \in 1..Len(transcript) : ~HasVerdict(transcript[j].content)

\* the requests of the body in flight that have been answered
Answered ==
    IF gwPc = "replied" /\ gwBody.kind \in {"dict", "list"}
    THEN {i \in 1..Len(gwBody.elems) : i <= Len(gwReply.items)}
    ELSE {}

RequestAt(i) == gwBody.elems[i]
ResponseAt(i) == gwReply.items[i]

\* a request: a JSON object the gateway accepts as a JSON-RPC request envelope
\* (string method, id a string, an integer, null or absent, params an object,
\* null or absent, jsonrpc a string or absent)
IsRequest(req) ==
    /\ req.isDict
    /\ req.method.k = "str"
    /\ req.id.k \in {"absent", "null", "str", "int"}
    /\ req.params.k \in {"absent", "null", "dict"}
    /\ req.jsonrpc.k \in {"absent", "str"}

IsToolsCall(req) == IsRequest(req) /\ req.method = JStr("tools/call")

NamedTool(req) == IF req.params.k = "dict" THEN req.params.name ELSE Absent
ArgumentsOf(req) == IF req.params.k = "dict" THEN req.params.arguments ELSE NoArguments

RegisteredTools == {JStr("news_sentiment_tool"), JStr("technical_analysis_tool")}

OmitsTicker(req) ==
    /\ ArgumentsOf(req).k \in {"absent", "dict"}
    /\ ArgumentsOf(req).ticker_symbol = Absent

\* the response has result.content[0].text
HasContentText(resp) ==
    /\ "result" \in resp.keys
    /\ resp.result.k = "content"
    /\ Len(resp.result.content) >= 1
    /\ resp.result.content[1].type = "text"
    /\ Len(resp.result.content[1].text) > 0

IsErrorWithCode(resp, code) ==
    /\ "error" \in resp.keys
    /\ "result" \notin resp.keys
    /\ resp.error.k = "error"
    /\ resp.error.code = code

ProviderCallsFor(i) == {j \in 1..Len(providerLog) : providerLog[j].idx = i}

\* exactly one of result and error, as keys and as values
ExactlyOneOfResultError(resp) ==
    /\ ("result" \in resp.keys) # ("error" \in resp.keys)
    /\ ("result" \in resp.keys) <=> (resp.result # NoResult)
    /\ ("error" \in resp.keys) <=> (resp.error # NoError)


(***************************************************************************)
(* C1.  When the first utterance holding "FINAL VERDICT" is the k-th one   *)
(* and k <= max_turns, the loop has stopped after exactly k turns with     *)
(* reason phrase-matched and nobody has spoken after it, also when k is    *)
(* mid-cycle and max_turns is larger than k.                               *)
(***************************************************************************)
C1_StopsAtVerdict ==
    \A k \in 1..Len(transcript) :
        (FirstVerdictAt(k) /\ k <= max_turns) =>
            /\ chatState = "TERMINATED"
            /\ stopReason = "phrase-matched"
            /\ turnIndex = k
            /\ Len(transcript) = k

\* the verdict came on the second turn of a cycle, inside a longer text, with two
\* turns of budget left
C1_Witness ==
    /\ chatState = "TERMINATED"
    /\ stopReason = "phrase-matched"
    /\ max_turns = 4
    /\ FirstVerdictAt(2)
    /\ Len(transcript[2].content) > 2
    /\ transcript[2].source = "TechnicalAnalyst"

(***************************************************************************)
(* C2.  With max_turns = N >= 1 and no utterance holding "FINAL VERDICT",  *)
(* the run ends, after exactly N turns, with reason turn-budget-exhausted, *)
(* and the transcript handed back is that of those N turns.  While the     *)
(* loop runs fewer than N turns have been taken, and every run whose turns *)
(* complete reaches an end.                                                *)
(***************************************************************************)
C2_BudgetSafety ==
    /\ chatState = "RUNNING" => (turnIndex < max_turns /\ NoVerdictYet)
    /\ (NoVerdictYet /\ Len(transcript) >= max_turns) =>
            /\ chatState = "TERMINATED"
            /\ stopReason = "turn-budget-exhausted"
    /\ (chatState = "TERMINATED" /\ NoVerdictYet) =>
            /\ stopReason = "turn-budget-exhausted"
            /\ turnIndex = max_turns
            /\ Len(transcript) = max_turns
            /\ \A t \in 1..max_turns : transcript[t].content \in Utterances

C2_BudgetExhaustion ==
    /\ []C2_BudgetSafety
    /\ <>(chatState \in {"TERMINATED", "FAULTED"})

C2_Witness ==
    /\ chatState = "TERMINATED"
    /\ stopReason = "turn-budget-exhausted"
    /\ max_turns = 4
    /\ Len(transcript) = 4
    /\ NoVerdictYet

(***************************************************************************)
(* C3.  call_tool never raises: when the transport faults (the connection  *)
(* fails, the status is a failure, the body cannot be decoded) it returns  *)
(* a text describing the error.                                            *)
(***************************************************************************)
C3_TransportFaultIsText ==
    (clPc \in {"returned", "raised"}
        /\ clExchange.kind \in {"connect_error", "http_error_status", "undecodable_body"})
    => (clOutcome.kind = "returned" /\ Len(clOutcome.text) > 0)

(***************************************************************************)
(* C4.  The response's id equals the request's id, for every request the   *)
(* gateway handles; a request without an id gets a response without one.   *)
(* Stated for the ids a response can carry (strings and integers).         *)
(***************************************************************************)
C4_IdEcho ==
    /\ \A i \in Answered :
          LET req == RequestAt(i)
              resp == ResponseAt(i)
          IN  /\ (req.isDict /\ req.id.k \in {"str", "int"}) =>
                    ("id" \in resp.keys /\ resp.id = req.id)
              /\ (~req.isDict \/ req.id \in {Absent, JNull}) => "id" \notin resp.keys
    /\ (gwPc = "replied" /\ gwBody.kind \in {"other", "undecodable"}) =>
          \A i \in 1..Len(gwReply.items) : "id" \notin gwReply.items[i].keys

(***************************************************************************)
(* C5.  Every response the gateway emits, alone or as an element of a      *)
(* batch, carries exactly one of result and error.                         *)
(***************************************************************************)
C5_ExactlyOne ==
    /\ \A i \in 1..Len(gwReply.items) : ExactlyOneOfResultError(gwReply.items[i])
    /\ \A i \in 1..Len(gwResponses) : ExactlyOneOfResultError(gwResponses[i])

\* a batch answered with a result for one element and an error for another
C5_Witness ==
    /\ gwPc = "replied"
    /\ gwReply.kind = "batch"
    /\ \E i, j \in 1..Len(gwReply.items) :
          /\ "result" \in gwReply.items[i].keys
          /\ "error" \in gwReply.items[j].keys

(***************************************************************************)
(* C6, as claimed.  A tools/call request naming a registered tool whose    *)
(* arguments hold ticker_symbol as a string, any string, is answered with  *)
(* result.content[0].text and no error.                                    *)
(***************************************************************************)
C6_AnyStringTicker ==
    \A i \in Answered :
        LET req == RequestAt(i)
        IN  (/\ IsToolsCall(req)
             /\ NamedTool(req) \in RegisteredTools
             /\ ArgumentsOf(req).k = "dict"
             /\ ArgumentsOf(req).ticker_symbol.k = "str")
            => (HasContentText(ResponseAt(i)) /\ "error" \notin ResponseAt(i).keys)

(***************************************************************************)
(* C6, amended.  A tools/call request naming a registered tool whose       *)
(* arguments hold ticker_symbol as a non-empty string is answered with     *)
(* result.content[0].text and no error, whatever the provider returned.    *)
(***************************************************************************)
C6_NonEmptyStringTicker ==
    \A i \in Answered :
        LET req == RequestAt(i)
        IN  (/\ IsToolsCall(req)
             /\ NamedTool(req) \in RegisteredTools
             /\ ArgumentsOf(req).k = "dict"
             /\ ArgumentsOf(req).ticker_symbol.k = "str"
             /\ ArgumentsOf(req).ticker_symbol.v # "")
            => (HasContentText(ResponseAt(i)) /\ "error" \notin ResponseAt(i).keys)

\* the technical tool answered with the provider's error text as a result
C6_Witness ==
    /\ gwPc = "replied"
    /\ gwBody.kind = "dict"
    /\ IsToolsCall(RequestAt(1))
    /\ NamedTool(RequestAt(1)) = JStr("technical_analysis_tool")
    /\ ArgumentsOf(RequestAt(1)).ticker_symbol = JStr("AAPL")
    /\ HasContentText(ResponseAt(1))
    /\ ResponseAt(1).result.content[1].text[3] = "Error fetching technical analysis: <fault>"
    /\ Len(providerLog) = 1

(***************************************************************************)
(* C7, as claimed.  A tools/call request whose arguments omit              *)
(* ticker_symbol is answered with error code -32602 and no provider is     *)
(* invoked.                                                                *)
(***************************************************************************)
C7_OmittedTicker ==
    \A i \in Answered :
        (IsToolsCall(RequestAt(i)) /\ OmitsTicker(RequestAt(i)))
        => (IsErrorWithCode(ResponseAt(i), -32602) /\ ProviderCallsFor(i) = {})

(***************************************************************************)
(* C7, amended.  A tools/call request that names a registered tool and     *)
(* whose arguments are absent, or an object without ticker_symbol, is      *)
(* answered with error code -32602 and no provider is invoked.             *)
(***************************************************************************)
C7_OmittedTickerRegisteredTool ==
    \A i \in Answered :
        (/\ IsToolsCall(RequestAt(i))
         /\ NamedTool(RequestAt(i)) \in RegisteredTools
         /\ OmitsTicker(RequestAt(i)))
        => (IsErrorWithCode(ResponseAt(i), -32602) /\ ProviderCallsFor(i) = {})

C7_Witness ==
    /\ gwPc = "replied"
    /\ gwBody.kind = "dict"
    /\ IsToolsCall(RequestAt(1))
    /\ NamedTool(RequestAt(1)) = JStr("news_sentiment_tool")
    /\ ArgumentsOf(RequestAt(1)) = [k |-> "dict", ticker_symbol |-> Absent]
    /\ IsErrorWithCode(ResponseAt(1), -32602)

(***************************************************************************)
(* C8.  A tools/call request naming a tool that is not registered, a       *)
(* missing name included, whatever its arguments, and a request whose      *)
(* method is not initialize, tools/list or tools/call, is answered with    *)
(* error code -32601 and no provider is invoked.  A request is a body the  *)
(* gateway accepts as a request envelope; a body it rejects is C9's.       *)
(***************************************************************************)
C8_NotFound ==
    \A i \in Answered :
        LET req == RequestAt(i)
        IN  (\/ IsToolsCall(req) /\ NamedTool(req) \notin RegisteredTools
             \/ IsRequest(req)
                  /\ req.method.v \notin {"initialize", "tools/list", "tools/call"})
            => (IsErrorWithCode(ResponseAt(i), -32601) /\ ProviderCallsFor(i) = {})

\* one batch holding an unknown method and an unregistered tool
C8_Witness ==
    /\ gwPc = "replied"
    /\ gwBody.kind = "list"
    /\ \E i, j \in Answered :
          /\ IsRequest(RequestAt(i))
          /\ RequestAt(i).method = JStr("resources/list")
          /\ IsErrorWithCode(ResponseAt(i), -32601)
          /\ IsToolsCall(RequestAt(j))
          /\ NamedTool(RequestAt(j)) = JStr("unknown_tool")
          /\ IsErrorWithCode(ResponseAt(j), -32601)

(***************************************************************************)
(* C9.  Whatever the body, the endpoint answers with well-formed envelopes *)
(* and no fault escapes; a fault raised while handling a request yields    *)
(* code -32603 with the fault's message, and a body that cannot be decoded *)
(* as a request at all yields code -32700.                                 *)
(***************************************************************************)
C9_FaultContainment ==
    gwPc = "replied" =>
        /\ gwReply.kind \in {"single", "batch"}
        /\ \A i \in 1..Len(gwReply.items) :
              /\ "jsonrpc" \in gwReply.items[i].keys
              /\ ExactlyOneOfResultError(gwReply.items[i])
        /\ gwBody.kind \in {"other", "undecodable"} =>
              /\ Len(gwReply.items) = 1
              /\ IsErrorWithCode(gwReply.items[1], -32700)
        /\ \A i \in Answered :
              (\/ ~IsRequest(RequestAt(i))
               \/ /\ IsToolsCall(RequestAt(i))
                  /\ NamedTool(RequestAt(i)) \in RegisteredTools
                  /\ ArgumentsOf(RequestAt(i)).k \in {"null", "bad"})
              => /\ IsErrorWithCode(ResponseAt(i), -32603)
                 /\ Len(ResponseAt(i).error.message) = 2
                 /\ ResponseAt(i).error.message[2] # ""

(***************************************************************************)
(* C10.  A batch of n requests is answered with exactly n responses in the *)
(* same order, the i-th being the response the i-th request gets when sent *)
(* alone (for some answer of the provider); a fault in one element leaves  *)
(* the other responses as they are.                                        *)
(***************************************************************************)
C10_BatchInOrder ==
    /\ gwPc = "batch" => Len(gwResponses) = gwIdx - 1
    /\ (gwPc = "replied" /\ gwBody.kind = "list") =>
          /\ gwReply.kind = "batch"
          /\ Len(gwReply.items) = Len(gwBody.elems)
          /\ \A i \in 1..Len(gwBody.elems) :
                gwBody.elems[i].isDict =>
                    \E src \in SourceOutcomes :
                        gwReply.items[i] =
                            model_dump(handle_single_request(gwBody.elems[i], src).resp)

\* a faulting element first, a served tool call second
C10_Witness ==
    /\ gwPc = "replied"
    /\ gwBody.kind = "list"
    /\ Len(gwBody.elems) = 2
    /\ ~IsRequest(gwBody.elems[1])
    /\ gwBody.elems[1].isDict
    /\ IsErrorWithCode(gwReply.items[1], -32603)
    /\ IsToolsCall(gwBody.elems[2])
    /\ HasContentText(gwReply.items[2])

(***************************************************************************)
(* C11.  The speaker of turn t (counting from 0) is the participant at     *)
(* position t mod 3 of SentimentAnalyst, TechnicalAnalyst, Orchestrator;   *)
(* no turn is out of order and none is skipped before the run ends.        *)
(***************************************************************************)
C11_TurnOrder ==
    /\ Len(transcript) = turnIndex
    /\ \A t \in 0..(Len(transcript) - 1) :
          transcript[t + 1].source =
              CASE t % 3 = 0 -> "SentimentAnalyst"
                [] t % 3 = 1 -> "TechnicalAnalyst"
                [] OTHER -> "Orchestrator"

\* the order has wrapped around: a fourth turn, taken by the first participant
C11_Witness ==
    /\ Len(transcript) = 4
    /\ transcript[3].source = "Orchestrator"
    /\ transcript[4].source = "SentimentAnalyst"

(***************************************************************************)
(* C12.  Once main has constructed the system, every way analyze_stock     *)
(* ends (verdict or budget, a fault in a turn, a user interrupt) is        *)
(* followed by exactly one attempt of system.cleanup() before main exits;  *)
(* a fault of a turn is printed by analyze_stock and reaches main, which   *)
(* prints it too; a fault raised by cleanup does not leave main.           *)
(***************************************************************************)
C12_CleanupOnEveryExit ==
    /\ cleanupAttempts <= 1
    /\ cleanupAttempts = 1 => mainPc = "exited" /\ mainSystem
    /\ (mainPc = "exited" /\ mainSystem) =>
          /\ cleanupAttempts = 1
          /\ chatState \in {"READY", "TERMINATED", "FAULTED", "INTERRUPTED"}
          /\ chatState = "FAULTED" =>
                {"analyze_stock: Error during analysis",
                 "main: Error during analysis"} \subseteq mainReports
    /\ mainEscaped \in {"none", "CancelledError"}

\* a turn faulted, cleanup was attempted and faulted too, and main returned
C12_Witness ==
    /\ mainPc = "exited"
    /\ chatState = "FAULTED"
    /\ turnIndex >= 1
    /\ cleanupAttempts = 1
    /\ "main: Error during cleanup" \in mainReports
    /\ mainEscaped = "none"

(***************************************************************************)
(* C13.  call_tool sends its request over the handle the executor owns:    *)
(* once a call_tool has run, the executor holds an open handle, and that   *)
(* handle is the one the request went over.                                *)
(***************************************************************************)
C13_CallToolUsesOwnedHandle ==
    lastOp.op = "call_tool" =>
        /\ exClient # 0
        /\ exClient \in openHandles
        /\ lastOp.handle = exClient

(***************************************************************************)
(* C14.  From every executor state (no handle, an open handle, a handle    *)
(* already closed) disconnect leaves the executor holding no open handle   *)
(* and no handle of its making open, a second disconnect right after the   *)
(* first changes nothing, and a later ensure_connection yields an open     *)
(* handle again.                                                           *)
(***************************************************************************)
C14_DisconnectIdempotent ==
    /\ mcpExecutor # 0 =>
          LET once == disconnect(ThisExecutor)
              twice == disconnect(once)
              again == ensure_connection(once)
          IN  /\ once.client \notin once.open
              /\ once.open = {}
              /\ twice = once
              /\ again.client # 0
              /\ again.client \in again.open
    /\ lastOp.op = "disconnect" =>
          /\ exClient \notin openHandles
          /\ openHandles = {}
          /\ lastOp.before = 0 => ~lastOp.changed

\* a handle was closed and recreated, and disconnect has released the new one
C14_Witness ==
    /\ lastOp.op = "disconnect"
    /\ lastOp.before = 2
    /\ lastOp.changed
    /\ exClient = 0
    /\ openHandles = {}

(***************************************************************************)
(* C15.  Between two cleanups every get_mcp_executor returns the same      *)
(* instance, which exists only once a get has asked for it;                *)
(* cleanup_mcp_executor disconnects and drops the instance and changes     *)
(* nothing when there is none; the get after a cleanup returns an instance *)
(* never returned before; at most one instance is live at any time.        *)
(***************************************************************************)
C15_Singleton ==
    /\ Cardinality(gotten) <= 1
    /\ gotten = IF mcpExecutor = 0 THEN {} ELSE {mcpExecutor}
    /\ mcpExecutor \notin retired
    /\ (nextInstance - 1) - Cardinality(retired) = IF mcpExecutor = 0 THEN 0 ELSE 1
    /\ lastOp.op = "get_mcp_executor" =>
          /\ lastOp.instance = mcpExecutor
          /\ lastOp.instance # 0
          /\ lastOp.before # 0 => lastOp.instance = lastOp.before
    /\ lastOp.op = "cleanup_mcp_executor" =>
          /\ mcpExecutor = 0
          /\ openHandles = {}
          /\ lastOp.before = 0 => ~lastOp.changed

\* a second instance, obtained after the first was connected and cleaned up
C15_Witness ==
    /\ lastOp.op = "get_mcp_executor"
    /\ lastOp.before = 0
    /\ mcpExecutor = 2
    /\ retired = {1}
    /\ nextHandle > 1

(***************************************************************************)
(* C16.  When the response carries a non-null error object with code c and *)
(* message m, call_tool returns (does not raise) a text that holds [c] and *)
(* m, and never the content of a result that came with it.                 *)
(***************************************************************************)
C16_ErrorNormalized ==
    (/\ clPc \in {"returned", "raised"}
     /\ clExchange.kind = "json"
     /\ "error" \in clExchange.reply.keys
     /\ clExchange.reply.error.k = "error")
    => LET rpc_response == clExchange.reply
       IN  /\ clOutcome.kind = "returned"
           /\ clOutcome.tag = "mcp_error"
           /\ clOutcome.code = rpc_response.error.code
           /\ Contains(clOutcome.text, rpc_response.error.message)
           /\ ("result" \in rpc_response.keys /\ Len(rpc_response.result.content) > 0) =>
                 ~Contains(clOutcome.text, rpc_response.result.content[1].text)

\* an error object that came together with a result
C16_Witness ==
    /\ clPc = "returned"
    /\ clExchange.kind = "json"
    /\ {"error", "result"} \subseteq clExchange.reply.keys
    /\ clExchange.reply.error.code = -32000
    /\ clOutcome.code = -32000

(***************************************************************************)
(* C17.  For every response with a result and no error (the error key      *)
(* absent or null), call_tool returns the text of the first content block  *)
(* unchanged when the content list is non-empty, and a diagnostic text     *)
(* that includes the raw result when the result has no content block.      *)
(***************************************************************************)
C17_ResultExtracted ==
    (/\ clPc \in {"returned", "raised"}
     /\ clExchange.kind = "json"
     /\ "result" \in clExchange.reply.keys
     /\ clExchange.reply.result # NoResult
     /\ ("error" \notin clExchange.reply.keys \/ clExchange.reply.error = NoError))
    => LET result == clExchange.reply.result
       IN  /\ clOutcome.kind = "returned"
           /\ (Len(result.content) > 0 /\ result.content[1].type = "text") =>
                 clOutcome.text = result.content[1].text
           /\ Len(result.content) = 0 =>
                 /\ clOutcome.tag = "no_content"
                 /\ Contains(clOutcome.text, <<result.k>>)

\* the gateway's text for a served ticker came back unchanged
C17_Witness ==
    /\ clPc = "returned"
    /\ clCall.arguments.ticker_symbol = JStr("AAPL")
    /\ clExchange.kind = "json"
    /\ "error" \notin clExchange.reply.keys
    /\ Len(clExchange.reply.result.content) = 1
    /\ Len(clOutcome.text) > 0
    /\ clOutcome.text = clExchange.reply.result.content[1].text

(***************************************************************************)
(* C18.  Under every interleaving of concurrent ensure_connection and      *)
(* disconnect calls on one executor: at most one task is inside a guarded  *)
(* block, so creation and teardown exclude each other and two              *)
(* ensure_connection calls never both create a handle; no handle but the   *)
(* one created last is ever open; and when no operation is in progress     *)
(* the executor holds either no handle or that handle, open.               *)
(***************************************************************************)
C18_LockGuardsHandle ==
    /\ \A t1, t2 \in Tasks :
          (taskPc[t1] \in Guarded /\ taskPc[t2] \in Guarded) => t1 = t2
    /\ \A t \in Tasks : taskPc[t] \in Guarded => lockHolder = t
    /\ openHandles \subseteq {lastCreated}
    /\ (\A t \in Tasks : taskPc[t] = "idle") =>
          \/ exClient = 0 /\ openHandles = {}
          \/ exClient # 0 /\ exClient = lastCreated /\ openHandles = {exClient}

\* a second handle is being torn down while an ensure_connection waits for the lock
C18_Witness ==
    /\ \E t1, t2 \in Tasks :
          /\ taskPc[t1] = "d_clear"
          /\ taskPc[t2] = "e_acquire"
          /\ lockHolder = t1
    /\ lastCreated = 2
    /\ exClient = 2

C20_ProviderFaultContained ==
    \A j \in 1..Len(providerLog) :
        LET call == providerLog[j]
            description ==
                IF call.tool = "news_sentiment_tool"
                THEN "Error fetching news articles: <" \o call.src \o ">"
                ELSE "Error fetching technical analysis: <" \o call.src \o ">"
        IN  (\/ call.src \in {"fault", "malformed"}
             \/ call.src = "empty" /\ call.tool = "technical_analysis_tool")
            => /\ call.returned = description
               /\ call.idx \in Answered =>
                     /\ HasContentText(ResponseAt(call.idx))
                     /\ "error" \notin ResponseAt(call.idx).keys
                     /\ Contains(ResponseAt(call.idx).result.content[1].text, <<description>>)

\* in a batch, the news source faulted and the indicator source delivered
\* a malformed frame; both answers are results
C20_Witness ==
    /\ gwPc = "replied"
    /\ gwBody.kind = "list"
    /\ Len(providerLog) = 2
    /\ providerLog[1].tool = "news_sentiment_tool"
    /\ providerLog[1].src = "fault"
    /\ providerLog[2].tool = "technical_analysis_tool"
    /\ providerLog[2].src = "malformed"
    /\ HasContentText(ResponseAt(1))
    /\ ResponseAt(1).result.content[1].text[3] = "Error fetching news articles: <fault>"
    /\ HasContentText(ResponseAt(2))

(***************************************************************************)
(* C21.  _handle_async_call terminates in both calling contexts: once it   *)
(* has been called, with or without a running event loop, it eventually    *)
(* returns the coroutine's result or raises the coroutine's fault.         *)
(***************************************************************************)
C21_Terminates == (asPc = "import") ~> (asPc \in {"returned", "raised"})

(***************************************************************************)
(* C22.  Every tool call made during a run of a system that was            *)
(* constructed with mcp_server_url = U is sent to U, whatever systems were *)
(* constructed, run and cleaned up (or not) before in the same process.    *)
(***************************************************************************)
C22_CallsGoToOwnUrl ==
    (lastSent.system # 0 /\ lastSent.given # "none") =>
        lastSent.sentTo = lastSent.given

(***************************************************************************)
(* C23.  In every state of a run no transcript entry other than the last   *)
(* holds FINAL VERDICT; when the run has ended with reason phrase-matched, *)
(* the last entry is an agent's utterance holding the phrase; when the run *)
(* has ended and the last entry does not hold the phrase, it ended by      *)
(* budget exhaustion; and the text main prints as the final result is the  *)
(* last entry's text.                                                      *)
(***************************************************************************)
C23_VerdictOnlyLast ==
    /\ \A j \in 1..(Len(transcript) - 1) : ~HasVerdict(transcript[j].content)
    /\ stopReason = "phrase-matched" =>
          /\ chatState = "TERMINATED"
          /\ Len(transcript) >= 1
          /\ HasVerdict(transcript[Len(transcript)].content)
          /\ transcript[Len(transcript)].source
                \in {"SentimentAnalyst", "TechnicalAnalyst", "Orchestrator"}
    /\ chatState = "TERMINATED" =>
          /\ Len(transcript) >= 1
          /\ ~HasVerdict(transcript[Len(transcript)].content) =>
                stopReason = "turn-budget-exhausted"
    /\ (mainPc \in {"finally", "exited"} /\ chatState = "TERMINATED") =>
          mainVerdict = transcript[Len(transcript)].content
    /\ mainVerdict # <<>> => chatState = "TERMINATED"

\* the phrase came in the third turn, and main printed that utterance
C23_Witness ==
    /\ mainPc = "exited"
    /\ stopReason = "phrase-matched"
    /\ Len(transcript) = 3
    /\ HasVerdict(mainVerdict)
    /\ mainVerdict # transcript[1].content

====
